---- MODULE Spec2Model ----
(***************************************************************************)
(* Credit ledger of the pay-per-query chat.                                *)
(*                                                                         *)
(*   POST /api/create-credit-checkout  (unnamed/part_002)                  *)
(*   POST Stripe webhook               (check-times.js, lines 24-87)       *)
(*   POST /api/pro-chat                (app/api/pro-chat/route.ts)         *)
(*                                                                         *)
(* The table user_credits lives in a shared store; every handler is an     *)
(* async function whose awaits are separate round trips to that store, so  *)
(* each store operation is one atomic step and handlers interleave between *)
(* their steps.                                                            *)
(***************************************************************************)
EXTENDS Integers, Sequences, FiniteSets, TLC

\* ---------------------------------------------------------------- bounds
NumAccounts == 2
NumReqs     == 2
NumHooks    == 2
NumSessions == 1
MaxPacks    == 2

Accounts == 1..NumAccounts
Reqs     == 1..NumReqs
Hooks    == 1..NumHooks

\* credits values a client may post to the checkout endpoint (the endpoint
\* takes the number from the request body as it is)
CreditInputs == {5 * k : k \in (-1)..MaxPacks} \ {0}

\* ------------------------------------------------------ program constants
Price == 10

Providers == <<"OpenAI", "Claude", "Gemini">>
Sections  == <<"Advanced Analytics", "Deep Learning", "Neural Network">>
PIdx      == 1..3

VARIABLES
    user_credits,     \* [Accounts -> Seq(Int)]: balances of the rows with that user_id
    sessions,         \* paid checkout sessions, each the metadata {userId, credits}
    rpc,              \* position of each pro-chat request
    ruser,            \* userId of the request body
    userCredits,      \* data of the balance select: <<>> (null) or <<balance>>
    response,         \* per request, per provider: "none" | "pending" | "fulfilled" | "rejected"
    models,           \* sections pushed while combining
    rstatus,          \* HTTP status answered, 0 while none
    wpc,              \* position of each webhook delivery
    wevent,           \* index into sessions of the event delivered, 0 while none
    existing,         \* data of the webhook's select: <<>> or <<balance>>
    wstatus,          \* HTTP status answered by the webhook, 0 while none
    wsig,             \* outcome of constructEvent: "none" | "valid" | "invalid"
    wtype,            \* event.type of a verified delivery, "none" while none
    user,             \* pro-chat page: the signed-in user, 0 while null
    credits,          \* pro-chat page: the credits it displays
    ppc,              \* pro-chat page: position of checkAuth
    query,            \* pro-chat page: query.trim() is not empty
    messages,         \* pro-chat page: the roles of the messages shown
    isAsking,         \* pro-chat page: isAsking
    ask,              \* pro-chat page: per request, the position of the handleAsk call that sent it
    rorder,           \* per request: the provider calls in the order they settled
    \* history (not program state)
    rdebited,         \* the request's debit update was applied
    rrefunded,        \* the request's refund update was applied
    wapplied,         \* the delivery wrote its credits to the ledger
    reqTouched,       \* per request: another request wrote to its account since it started
    hookTouched,      \* per request: a webhook wrote to its account since it started
    startBal,         \* per request: data a balance read would have returned when it started
    rfault,           \* per request: the store operation that failed, "none" while none
    wfault,           \* per delivery: its update or insert failed in the store
    rmissing          \* per request: its body had no query or no userId

vars == <<user_credits, sessions, rpc, ruser, userCredits, response, models,
          rstatus, wpc, wevent, existing, wstatus, rdebited, rrefunded,
          wapplied, reqTouched, hookTouched, startBal, wsig, wtype, user, credits,
          ppc, query, messages, isAsking, ask, rfault, wfault, rorder, rmissing>>

reqVars  == <<rpc, ruser, userCredits, response, models, rstatus>>
hookVars == <<wpc, wevent, existing, wstatus, wsig, wtype>>
pageVars == <<user, credits, ppc, query, messages, isAsking, ask>>
auxVars  == <<pageVars, rfault, wfault, rorder, rmissing>>

\* ------------------------------------------------------------ the store

\* .select('balance').eq('user_id', u).single(): the row when exactly one
\* matches, otherwise data is null
Single(rs) == IF Len(rs) = 1 THEN rs ELSE <<>>

\* .update({balance: b}).eq('user_id', u): every matching row gets b
Update(rs, b) == [i \in 1..Len(rs) |-> b]

\* user_id is unique in user_credits
UniqueUserId == TRUE

\* faulty variant of InsertOk: the table has no constraint on user_id
InsertOk_NoConstraint(rs) == TRUE

\* .insert({user_id: u, balance: b}): refused by the store when the row
\* would break the uniqueness of user_id (the handler ignores the error)
InsertOk(rs) == ~(UniqueUserId /\ Len(rs) > 0)
Insert(rs, b) == IF InsertOk(rs) THEN Append(rs, b) ELSE rs

\* credits.toString() in the checkout endpoint, parseInt(credits) in the webhook
toString(n) == [neg |-> n < 0, mag |-> IF n < 0 THEN -n ELSE n]
ParseInt(s) == IF s.neg THEN -s.mag ELSE s.mag

\* ------------------------------------------------------------- pro-chat

\* faulty variant of Insufficient: only the missing row is rejected
Insufficient_NoRowOnly(uc) == uc = <<>>

\* !userCredits || userCredits.balance < 10
Insufficient(uc) == uc = <<>> \/ uc[1] < Price

\* balance: userCredits.balance - 10
DebitBalance(uc) == uc[1] - Price

\* faulty variant of RefundBalance: the refund writes the debited balance again
RefundBalance_Debited(uc) == uc[1] - Price

\* balance: userCredits.balance
RefundBalance(uc) == uc[1]

\* balance: existing.balance + parseInt(credits)
CreditBalance(ex, str) == ex[1] + ParseInt(str)

NoResponse == [p \in PIdx |-> "none"]
Settled    == [PIdx -> {"fulfilled", "rejected"}]

\* history: request q wrote to the rows of account a
ReqTouch(q, a) ==
    [r \in Reqs |-> (rpc[r] # "idle" /\ ruser[r] = a /\ r # q) \/ reqTouched[r]]

\* history: a webhook wrote to the rows of account a
HookTouch(a) ==
    [r \in Reqs |-> (rpc[r] # "idle" /\ ruser[r] = a) \/ hookTouched[r]]

Init ==
    /\ user_credits = [a \in Accounts |-> <<>>]
    /\ sessions = <<>>
    /\ rpc = [r \in Reqs |-> "idle"]
    /\ ruser = [r \in Reqs |-> 0]
    /\ userCredits = [r \in Reqs |-> <<>>]
    /\ response = [r \in Reqs |-> NoResponse]
    /\ models = [r \in Reqs |-> <<>>]
    /\ rstatus = [r \in Reqs |-> 0]
    /\ wpc = [w \in Hooks |-> "idle"]
    /\ wevent = [w \in Hooks |-> 0]
    /\ existing = [w \in Hooks |-> <<>>]
    /\ wstatus = [w \in Hooks |-> 0]
    /\ rdebited = [r \in Reqs |-> FALSE]
    /\ rrefunded = [r \in Reqs |-> FALSE]
    /\ wapplied = [w \in Hooks |-> FALSE]
    /\ reqTouched = [r \in Reqs |-> FALSE]
    /\ hookTouched = [r \in Reqs |-> FALSE]
    /\ startBal = [r \in Reqs |-> <<>>]
    /\ wsig = [w \in Hooks |-> "none"]
    /\ wtype = [w \in Hooks |-> "none"]
    /\ user = 0
    /\ credits = 0
    /\ ppc = "auth"
    /\ query = FALSE
    /\ messages = <<>>
    /\ isAsking = FALSE
    /\ ask = [r \in Reqs |-> "none"]
    /\ rfault = [r \in Reqs |-> "none"]
    /\ wfault = [w \in Hooks |-> FALSE]
    /\ rorder = [r \in Reqs |-> <<>>]
    /\ rmissing = [r \in Reqs |-> FALSE]

\* POST /api/create-credit-checkout followed by the customer paying: the
\* session carries metadata {userId, credits: credits.toString()}
Checkout(a, c) ==
    /\ Len(sessions) < NumSessions
    /\ sessions' = Append(sessions, [userId |-> a, credits |-> toString(c)])
    /\ UNCHANGED <<user_credits, reqVars, hookVars, rdebited, rrefunded,
                   wapplied, reqTouched, hookTouched, startBal>>
    /\ UNCHANGED auxVars

\* faulty variant of ReqStart: only the userId of the body is looked at
ReqStart_NoQueryCheck(r, a, hasQuery) ==
    /\ rpc[r] = "idle"
    /\ IF a # 0
       THEN /\ rpc' = [rpc EXCEPT ![r] = "check"]
            /\ ruser' = [ruser EXCEPT ![r] = a]
            /\ startBal' = [startBal EXCEPT ![r] = Single(user_credits[a])]
            /\ UNCHANGED rstatus
       ELSE /\ rpc' = [rpc EXCEPT ![r] = "done"]
            /\ rstatus' = [rstatus EXCEPT ![r] = 400]
            /\ UNCHANGED <<ruser, startBal>>
    /\ rmissing' = [rmissing EXCEPT ![r] = ~hasQuery \/ a = 0]
    /\ UNCHANGED <<user_credits, sessions, userCredits, response, models,
                   hookVars, rdebited, rrefunded, wapplied, reqTouched, hookTouched>>
    /\ UNCHANGED <<pageVars, rfault, wfault, rorder>>

\* request.json(); if (!query || !userId) return 400
ReqStart(r, a, hasQuery) ==
    /\ rpc[r] = "idle"
    /\ IF hasQuery /\ a # 0
       THEN /\ rpc' = [rpc EXCEPT ![r] = "check"]
            /\ ruser' = [ruser EXCEPT ![r] = a]
            /\ startBal' = [startBal EXCEPT ![r] = Single(user_credits[a])]
            /\ UNCHANGED rstatus
       ELSE /\ rpc' = [rpc EXCEPT ![r] = "done"]
            /\ rstatus' = [rstatus EXCEPT ![r] = 400]
            /\ UNCHANGED <<ruser, startBal>>
    /\ rmissing' = [rmissing EXCEPT ![r] = ~hasQuery \/ a = 0]
    /\ UNCHANGED <<user_credits, sessions, userCredits, response, models,
                   hookVars, rdebited, rrefunded, wapplied, reqTouched, hookTouched>>
    /\ UNCHANGED <<pageVars, rfault, wfault, rorder>>

\* faulty variant of ReqCheck: the balance is lowered before it is compared
ReqCheck_DebitFirst(r) ==
    /\ rpc[r] = "check"
    /\ LET uc == Single(user_credits[ruser[r]]) IN
       /\ userCredits' = [userCredits EXCEPT ![r] = uc]
       /\ IF Insufficient(uc)
          THEN /\ rpc' = [rpc EXCEPT ![r] = "done"]
               /\ rstatus' = [rstatus EXCEPT ![r] = 402]
               /\ user_credits' = [user_credits EXCEPT ![ruser[r]] =
                                     IF uc = <<>> THEN @ ELSE Update(@, uc[1] - Price)]
          ELSE /\ rpc' = [rpc EXCEPT ![r] = "debit"]
               /\ UNCHANGED <<rstatus, user_credits>>
    /\ UNCHANGED <<sessions, ruser, response, models, hookVars,
                   rdebited, rrefunded, wapplied, reqTouched, hookTouched, startBal>>
    /\ UNCHANGED auxVars

\* faulty variant of ReqCheck: a sufficient balance leads straight to the
\* context and the provider calls, the debit is left out
ReqCheck_NoDebit(r) ==
    /\ rpc[r] = "check"
    /\ LET uc == Single(user_credits[ruser[r]]) IN
       /\ userCredits' = [userCredits EXCEPT ![r] = uc]
       /\ IF Insufficient(uc)
          THEN /\ rpc' = [rpc EXCEPT ![r] = "done"]
               /\ rstatus' = [rstatus EXCEPT ![r] = 402]
          ELSE /\ rpc' = [rpc EXCEPT ![r] = "context"]
               /\ UNCHANGED rstatus
    /\ UNCHANGED <<user_credits, sessions, ruser, response, models, hookVars,
                   rdebited, rrefunded, wapplied, reqTouched, hookTouched, startBal>>
    /\ UNCHANGED auxVars

\* Check credits: select balance, answer 402 when there is no row or balance < 10
ReqCheck(r) ==
    /\ rpc[r] = "check"
    /\ LET uc == Single(user_credits[ruser[r]]) IN
       /\ userCredits' = [userCredits EXCEPT ![r] = uc]
       /\ IF Insufficient(uc)
          THEN /\ rpc' = [rpc EXCEPT ![r] = "done"]
               /\ rstatus' = [rstatus EXCEPT ![r] = 402]
          ELSE /\ rpc' = [rpc EXCEPT ![r] = "debit"]
               /\ UNCHANGED rstatus
    /\ UNCHANGED <<user_credits, sessions, ruser, response, models, hookVars,
                   rdebited, rrefunded, wapplied, reqTouched, hookTouched, startBal>>
    /\ UNCHANGED auxVars

\* faulty variant of ReqDebit: the update has no .eq('user_id', userId) filter
ReqDebit_AllRows(r) ==
    /\ rpc[r] = "debit"
    /\ user_credits' = [a \in Accounts |->
                          Update(user_credits[a], DebitBalance(userCredits[r]))]
    /\ rdebited' = [rdebited EXCEPT ![r] = TRUE]
    /\ reqTouched' = ReqTouch(r, ruser[r])
    /\ rpc' = [rpc EXCEPT ![r] = "context"]
    /\ UNCHANGED <<sessions, ruser, userCredits, response, models, rstatus,
                   hookVars, rrefunded, wapplied, hookTouched, startBal>>
    /\ UNCHANGED auxVars

\* Deduct 10 credits: update balance to the balance read minus 10
ReqDebit(r) ==
    /\ rpc[r] = "debit"
    /\ user_credits' = [user_credits EXCEPT
                          ![ruser[r]] = Update(@, DebitBalance(userCredits[r]))]
    /\ rdebited' = [rdebited EXCEPT ![r] = TRUE]
    /\ reqTouched' = ReqTouch(r, ruser[r])
    /\ rpc' = [rpc EXCEPT ![r] = "context"]
    /\ UNCHANGED <<sessions, ruser, userCredits, response, models, rstatus,
                   hookVars, rrefunded, wapplied, hookTouched, startBal>>
    /\ UNCHANGED auxVars

\* Fetch games_raw and ai_outputs and build nflContext, then issue the three
\* provider calls.  Building the context dereferences raw_json.away_team,
\* raw_json.home_team and betting_analysis.substring of whatever the tables
\* hold; a throw there lands in the catch block: 500
ReqContext(r, throws) ==
    /\ rpc[r] = "context"
    /\ IF throws
       THEN /\ rpc' = [rpc EXCEPT ![r] = "done"]
            /\ rstatus' = [rstatus EXCEPT ![r] = 500]
            /\ UNCHANGED response
       ELSE /\ rpc' = [rpc EXCEPT ![r] = "fanout"]
            /\ response' = [response EXCEPT ![r] = [p \in PIdx |-> "pending"]]
            /\ UNCHANGED rstatus
    /\ UNCHANGED <<user_credits, sessions, ruser, userCredits, models, hookVars,
                   rdebited, rrefunded, wapplied, reqTouched, hookTouched, startBal>>
    /\ UNCHANGED auxVars

RECURSIVE Combine(_, _), Combine_Reversed(_, _)
\* faulty variant of Combine: the sections are pushed from the last call to the first
Combine_Reversed(resp, p) ==
    IF p > 3 THEN <<>>
    ELSE Combine_Reversed(resp, p + 1) \o (IF resp[p] = "fulfilled" THEN <<Sections[p]>> ELSE <<>>)

\* the three "if (responseN.status === 'fulfilled') models.push(...)" in order
Combine(resp, p) ==
    IF p > 3 THEN <<>>
    ELSE (IF resp[p] = "fulfilled" THEN <<Sections[p]>> ELSE <<>>) \o Combine(resp, p + 1)

\* Promise.allSettled([fetchOpenAI, fetchClaude, fetchGemini]) resolves with
\* the three outcomes (the calls share no state with the ledger); combine;
\* with no section, refund and throw (500), otherwise answer 200
ReqCombine(r, settled) ==
    /\ rpc[r] = "fanout"
    /\ response' = [response EXCEPT ![r] = settled]
    /\ LET ms == Combine(settled, 1) IN
       /\ models' = [models EXCEPT ![r] = ms]
       /\ IF Len(ms) = 0
          THEN /\ user_credits' = [user_credits EXCEPT
                                     ![ruser[r]] = Update(@, RefundBalance(userCredits[r]))]
               /\ rrefunded' = [rrefunded EXCEPT ![r] = TRUE]
               /\ reqTouched' = ReqTouch(r, ruser[r])
               /\ rstatus' = [rstatus EXCEPT ![r] = 500]
          ELSE /\ rstatus' = [rstatus EXCEPT ![r] = 200]
               /\ UNCHANGED <<user_credits, rrefunded, reqTouched>>
    /\ rpc' = [rpc EXCEPT ![r] = "done"]
    /\ UNCHANGED <<sessions, ruser, userCredits, hookVars, rdebited,
                   wapplied, hookTouched, startBal>>
    /\ UNCHANGED auxVars

\* ------------------------------------------------------------- webhook

\* faulty variant of HookReceive: the outcome of the verification is ignored
HookReceive_NoVerify(w, e, sigOk, completed) ==
    /\ wpc[w] = "idle"
    /\ e \in 1..Len(sessions)
    /\ wevent' = [wevent EXCEPT ![w] = e]
    /\ wsig' = [wsig EXCEPT ![w] = IF sigOk THEN "valid" ELSE "invalid"]
    /\ wtype' = [wtype EXCEPT ![w] = IF ~sigOk THEN "none"
                                     ELSE IF completed THEN "checkout.session.completed"
                                     ELSE "other"]
    /\ IF ~completed
       THEN /\ wpc' = [wpc EXCEPT ![w] = "done"]
            /\ wstatus' = [wstatus EXCEPT ![w] = 200]
       ELSE /\ wpc' = [wpc EXCEPT ![w] = "select"]
            /\ UNCHANGED wstatus
    /\ UNCHANGED <<user_credits, sessions, reqVars, existing, rdebited,
                   rrefunded, wapplied, reqTouched, hookTouched, startBal>>
    /\ UNCHANGED auxVars

\* faulty variant of HookReceive: the type of the event is not looked at
HookReceive_AnyType(w, e, sigOk, completed) ==
    /\ wpc[w] = "idle"
    /\ e \in 1..Len(sessions)
    /\ wevent' = [wevent EXCEPT ![w] = e]
    /\ wsig' = [wsig EXCEPT ![w] = IF sigOk THEN "valid" ELSE "invalid"]
    /\ wtype' = [wtype EXCEPT ![w] = IF ~sigOk THEN "none"
                                     ELSE IF completed THEN "checkout.session.completed"
                                     ELSE "other"]
    /\ IF ~sigOk
       THEN /\ wpc' = [wpc EXCEPT ![w] = "done"]
            /\ wstatus' = [wstatus EXCEPT ![w] = 400]
       ELSE /\ wpc' = [wpc EXCEPT ![w] = "select"]
            /\ UNCHANGED wstatus
    /\ UNCHANGED <<user_credits, sessions, reqVars, existing, rdebited,
                   rrefunded, wapplied, reqTouched, hookTouched, startBal>>
    /\ UNCHANGED auxVars

\* constructEvent(body, sig, secret): a failed verification answers 400; an
\* event of another type is acknowledged without touching the ledger
HookReceive(w, e, sigOk, completed) ==
    /\ wpc[w] = "idle"
    /\ e \in 1..Len(sessions)
    /\ wevent' = [wevent EXCEPT ![w] = e]
    /\ wsig' = [wsig EXCEPT ![w] = IF sigOk THEN "valid" ELSE "invalid"]
    /\ wtype' = [wtype EXCEPT ![w] = IF ~sigOk THEN "none"
                                     ELSE IF completed THEN "checkout.session.completed"
                                     ELSE "other"]
    /\ IF ~sigOk
       THEN /\ wpc' = [wpc EXCEPT ![w] = "done"]
            /\ wstatus' = [wstatus EXCEPT ![w] = 400]
       ELSE IF ~completed
       THEN /\ wpc' = [wpc EXCEPT ![w] = "done"]
            /\ wstatus' = [wstatus EXCEPT ![w] = 200]
       ELSE /\ wpc' = [wpc EXCEPT ![w] = "select"]
            /\ UNCHANGED wstatus
    /\ UNCHANGED <<user_credits, sessions, reqVars, existing, rdebited,
                   rrefunded, wapplied, reqTouched, hookTouched, startBal>>
    /\ UNCHANGED auxVars

\* select balance of session.metadata.userId
HookSelect(w) ==
    /\ wpc[w] = "select"
    /\ existing' = [existing EXCEPT ![w] = Single(user_credits[sessions[wevent[w]].userId])]
    /\ wpc' = [wpc EXCEPT ![w] = "write"]
    /\ UNCHANGED <<user_credits, sessions, reqVars, wevent, wstatus, wsig, wtype, rdebited,
                   rrefunded, wapplied, reqTouched, hookTouched, startBal>>
    /\ UNCHANGED auxVars

\* if (existing) update balance to existing.balance + parseInt(credits)
\* else insert a row with balance parseInt(credits); return {received: true}
HookWrite(w) ==
    /\ wpc[w] = "write"
    /\ LET s == sessions[wevent[w]] IN
       /\ user_credits' = [user_credits EXCEPT ![s.userId] =
               IF existing[w] # <<>>
               THEN Update(@, CreditBalance(existing[w], s.credits))
               ELSE Insert(@, ParseInt(s.credits))]
       /\ LET wrote == existing[w] # <<>> \/ InsertOk(user_credits[s.userId]) IN
          /\ wapplied' = [wapplied EXCEPT ![w] = wrote]
          /\ hookTouched' = IF wrote THEN HookTouch(s.userId) ELSE hookTouched
    /\ wpc' = [wpc EXCEPT ![w] = "done"]
    /\ wstatus' = [wstatus EXCEPT ![w] = 200]
    /\ UNCHANGED <<sessions, reqVars, wevent, existing, wsig, wtype, rdebited, rrefunded,
                   reqTouched, startBal>>
    /\ UNCHANGED auxVars

Next ==
    \/ \E a \in Accounts, c \in CreditInputs : Checkout(a, c)
    \/ \E r \in Reqs, a \in Accounts \cup {0}, q \in BOOLEAN : ReqStart(r, a, q)
    \/ \E r \in Reqs : ReqCheck(r)
    \/ \E r \in Reqs : ReqDebit(r)
    \/ \E r \in Reqs, t \in BOOLEAN : ReqContext(r, t)
    \/ \E r \in Reqs, s \in Settled : ReqCombine(r, s)
    \/ \E w \in Hooks, e \in 1..NumSessions, s \in BOOLEAN, c \in BOOLEAN : HookReceive(w, e, s, c)
    \/ \E w \in Hooks : HookSelect(w)
    \/ \E w \in Hooks : HookWrite(w)

Spec == Init /\ [][Next]_vars

\* ------------------------------------------------- the store failing
\* A supabase-js query does not throw: it resolves to {data: null, error}.
\* No handler reads error.

\* the balance select of the request fails: data is null, so 402
ReqCheckFails(r) ==
    /\ rpc[r] = "check"
    /\ rfault[r] = "none"
    /\ rfault' = [rfault EXCEPT ![r] = "read"]
    /\ userCredits' = [userCredits EXCEPT ![r] = <<>>]
    /\ IF Insufficient(<<>>)
       THEN /\ rpc' = [rpc EXCEPT ![r] = "done"]
            /\ rstatus' = [rstatus EXCEPT ![r] = 402]
       ELSE /\ rpc' = [rpc EXCEPT ![r] = "debit"]
            /\ UNCHANGED rstatus
    /\ UNCHANGED <<user_credits, sessions, ruser, response, models, hookVars,
                   rdebited, rrefunded, wapplied, reqTouched, hookTouched, startBal,
                   pageVars, wfault, rorder, rmissing>>

\* the debit update of the request fails: nothing is stored, the handler goes on
ReqDebitFails(r) ==
    /\ rpc[r] = "debit"
    /\ rfault[r] = "none"
    /\ rfault' = [rfault EXCEPT ![r] = "debit"]
    /\ rpc' = [rpc EXCEPT ![r] = "context"]
    /\ UNCHANGED <<user_credits, sessions, ruser, userCredits, response, models,
                   rstatus, hookVars, rdebited, rrefunded, wapplied, reqTouched,
                   hookTouched, startBal, pageVars, wfault, rorder, rmissing>>

\* the update or insert of the webhook fails: nothing is stored, the handler
\* goes on to console.log and return {received: true}
HookWriteFails(w) ==
    /\ wpc[w] = "write"
    /\ wfault' = [wfault EXCEPT ![w] = TRUE]
    /\ wpc' = [wpc EXCEPT ![w] = "done"]
    /\ wstatus' = [wstatus EXCEPT ![w] = 200]
    /\ UNCHANGED <<user_credits, sessions, reqVars, wevent, existing, wsig, wtype,
                   rdebited, rrefunded, wapplied, reqTouched, hookTouched, startBal,
                   pageVars, rfault, rorder, rmissing>>

NextFault ==
    \/ Next
    \/ \E r \in Reqs : ReqCheckFails(r)
    \/ \E r \in Reqs : ReqDebitFails(r)
    \/ \E w \in Hooks : HookWriteFails(w)

SpecFault == Init /\ [][NextFault]_vars

\* ------------------------------------------ the providers as processes
\* fetchOpenAI, fetchClaude and fetchGemini await fetch() without an
\* AbortController or a timer; when, and whether, the three calls settle is
\* up to the providers.

\* the three provider calls of request r settle
ProvidersSettle(r, settled) ==
    /\ rpc[r] = "fanout"
    /\ \A p \in PIdx : response[r][p] = "pending"
    /\ response' = [response EXCEPT ![r] = settled]
    /\ UNCHANGED <<user_credits, sessions, rpc, ruser, userCredits, models, rstatus,
                   hookVars, rdebited, rrefunded, wapplied, reqTouched, hookTouched,
                   startBal, auxVars>>

\* Promise.allSettled has resolved: the handler combines and answers
ReqAnswer(r) ==
    /\ \A p \in PIdx : response[r][p] \in {"fulfilled", "rejected"}
    /\ ReqCombine(r, response[r])

NextLive ==
    \/ \E a \in Accounts, c \in CreditInputs : Checkout(a, c)
    \/ \E r \in Reqs, a \in Accounts \cup {0}, q \in BOOLEAN : ReqStart(r, a, q)
    \/ \E r \in Reqs : ReqCheck(r)
    \/ \E r \in Reqs : ReqDebit(r)
    \/ \E r \in Reqs, t \in BOOLEAN : ReqContext(r, t)
    \/ \E r \in Reqs, s \in Settled : ProvidersSettle(r, s)
    \/ \E r \in Reqs : ReqAnswer(r)
    \/ \E w \in Hooks, e \in 1..NumSessions, s \in BOOLEAN, c \in BOOLEAN : HookReceive(w, e, s, c)
    \/ \E w \in Hooks : HookSelect(w)
    \/ \E w \in Hooks : HookWrite(w)

\* every step of a handler that is running is eventually taken (the server
\* runs it, the store answers); nothing obliges a client to send a request
\* or a provider to answer
FairHandlers ==
    /\ \A r \in Reqs :
          /\ WF_vars(ReqCheck(r))
          /\ WF_vars(ReqDebit(r))
          /\ WF_vars(\E t \in BOOLEAN : ReqContext(r, t))
          /\ WF_vars(ReqAnswer(r))
    /\ \A w \in Hooks : WF_vars(HookSelect(w)) /\ WF_vars(HookWrite(w))

SpecLive == Init /\ [][NextLive]_vars /\ FairHandlers

\* --------------------------------------------- accounts that hold rows
\* The handlers started on a ledger in which every account already has its
\* row (inserted by the webhook for an earlier purchase) holding the price
\* of one query.

InitIso ==
    /\ user_credits = [a \in Accounts |-> <<Price>>]
    /\ sessions = <<>>
    /\ rpc = [r \in Reqs |-> "idle"]
    /\ ruser = [r \in Reqs |-> 0]
    /\ userCredits = [r \in Reqs |-> <<>>]
    /\ response = [r \in Reqs |-> NoResponse]
    /\ models = [r \in Reqs |-> <<>>]
    /\ rstatus = [r \in Reqs |-> 0]
    /\ wpc = [w \in Hooks |-> "idle"]
    /\ wevent = [w \in Hooks |-> 0]
    /\ existing = [w \in Hooks |-> <<>>]
    /\ wstatus = [w \in Hooks |-> 0]
    /\ rdebited = [r \in Reqs |-> FALSE]
    /\ rrefunded = [r \in Reqs |-> FALSE]
    /\ wapplied = [w \in Hooks |-> FALSE]
    /\ reqTouched = [r \in Reqs |-> FALSE]
    /\ hookTouched = [r \in Reqs |-> FALSE]
    /\ startBal = [r \in Reqs |-> <<>>]
    /\ wsig = [w \in Hooks |-> "none"]
    /\ wtype = [w \in Hooks |-> "none"]
    /\ user = 0
    /\ credits = 0
    /\ ppc = "auth"
    /\ query = FALSE
    /\ messages = <<>>
    /\ isAsking = FALSE
    /\ ask = [r \in Reqs |-> "none"]
    /\ rfault = [r \in Reqs |-> "none"]
    /\ wfault = [w \in Hooks |-> FALSE]
    /\ rorder = [r \in Reqs |-> <<>>]
    /\ rmissing = [r \in Reqs |-> FALSE]

SpecIso == InitIso /\ [][Next]_vars

\* --------------------------------- the provider calls settling one by one

\* one of the three calls of request r settles: fetchOpenAI, fetchClaude or
\* fetchGemini returns its text (fulfilled) or throws (rejected)
ProviderSettles(r, p, ok) ==
    /\ rpc[r] = "fanout"
    /\ response[r][p] = "pending"
    /\ response' = [response EXCEPT ![r][p] = IF ok THEN "fulfilled" ELSE "rejected"]
    /\ rorder' = [rorder EXCEPT ![r] = Append(@, p)]
    /\ UNCHANGED <<user_credits, sessions, rpc, ruser, userCredits, models, rstatus,
                   hookVars, rdebited, rrefunded, wapplied, reqTouched, hookTouched,
                   startBal, pageVars, rfault, wfault, rmissing>>

\* the requests alone, on accounts that hold rows
NextOrder ==
    \/ \E r \in Reqs, a \in Accounts \cup {0}, q \in BOOLEAN : ReqStart(r, a, q)
    \/ \E r \in Reqs : ReqCheck(r)
    \/ \E r \in Reqs : ReqDebit(r)
    \/ \E r \in Reqs, t \in BOOLEAN : ReqContext(r, t)
    \/ \E r \in Reqs, p \in PIdx, ok \in BOOLEAN : ProviderSettles(r, p, ok)
    \/ \E r \in Reqs : ReqAnswer(r)

SpecOrder == InitIso /\ [][NextOrder]_vars

\* ------------------------------------------------- the charge of a session
\* Amounts of money are in thousandths of a dollar, so that the endpoint's
\* Math.round(amount * 100) has something to round.

\* the packages offered by the get-credits page: credits and price
Packages == { [credits |-> 100,  price |-> 1000],
              [credits |-> 500,  price |-> 4500],
              [credits |-> 1000, price |-> 8000],
              [credits |-> 2500, price |-> 18000] }

\* bodies posted to the checkout endpoint: what handlePurchase sends for a
\* package, and what any other client may send
ShopCredits == {p.credits : p \in Packages} \cup {25000}
ShopAmounts == {p.price : p \in Packages} \cup {504}

\* unit_amount: Math.round(amount * 100), in cents
UnitAmount(amount) == (amount + 5) \div 10

\* POST /api/create-credit-checkout with the charge kept: the session is
\* created for whatever {credits, amount, userId} the body holds, and paid
CreateCheckout(a, c, amount) ==
    /\ Len(sessions) < NumSessions
    /\ sessions' = Append(sessions, [userId |-> a, credits |-> toString(c),
                                     unit_amount |-> UnitAmount(amount)])
    /\ UNCHANGED <<user_credits, reqVars, hookVars, rdebited, rrefunded,
                   wapplied, reqTouched, hookTouched, startBal>>
    /\ UNCHANGED auxVars

NextShop ==
    \/ \E a \in Accounts, c \in ShopCredits, m \in ShopAmounts : CreateCheckout(a, c, m)
    \/ \E w \in Hooks, e \in 1..NumSessions, s \in BOOLEAN, c \in BOOLEAN : HookReceive(w, e, s, c)
    \/ \E w \in Hooks : HookSelect(w)
    \/ \E w \in Hooks : HookWrite(w)

SpecShop == Init /\ [][NextShop]_vars

\* ------------------------------------------------------ pro-chat page

\* faulty variant of loadCredits: data.balance is read without the default
loadCredits_NoDefault(data) == IF data = <<>> THEN -1 ELSE data[1]

\* setCredits(data?.balance || 0)
loadCredits(data) == IF data = <<>> \/ data[1] = 0 THEN 0 ELSE data[1]

\* checkAuth: getUser(); without a user the page redirects to /auth/signin,
\* otherwise setUser(user) and loadCredits(user.id) is called
CheckAuth(a) ==
    /\ ppc = "auth"
    /\ IF a = 0
       THEN ppc' = "signin" /\ UNCHANGED user
       ELSE ppc' = "load" /\ user' = a
    /\ UNCHANGED <<user_credits, sessions, reqVars, hookVars, rdebited, rrefunded,
                   wapplied, reqTouched, hookTouched, startBal, credits, query, messages, isAsking, ask,
                   rfault, wfault, rorder, rmissing>>

\* loadCredits(user.id) resolves: select balance, setCredits, setLoading(false)
PageLoadCredits ==
    /\ ppc = "load"
    /\ credits' = loadCredits(Single(user_credits[user]))
    /\ ppc' = "ready"
    /\ UNCHANGED <<user_credits, sessions, reqVars, hookVars, rdebited, rrefunded,
                   wapplied, reqTouched, hookTouched, startBal, user, query, messages, isAsking, ask,
                   rfault, wfault, rorder, rmissing>>

NextPage ==
    \/ \E a \in Accounts, c \in CreditInputs : Checkout(a, c)
    \/ \E w \in Hooks, e \in 1..NumSessions, s \in BOOLEAN, c \in BOOLEAN : HookReceive(w, e, s, c)
    \/ \E w \in Hooks : HookSelect(w)
    \/ \E w \in Hooks : HookWrite(w)
    \/ \E a \in Accounts \cup {0} : CheckAuth(a)
    \/ PageLoadCredits

SpecPage == Init /\ [][NextPage]_vars

\* ------------------------------------------- pro-chat page: handleAsk
\* The page of one signed-in user on accounts that hold rows.  An event
\* handler runs to its first await without interruption, and React has
\* rendered the state it set before the next event is handled.

serverVars == <<user_credits, sessions, reqVars, hookVars, rdebited, rrefunded,
                wapplied, reqTouched, hookTouched, startBal, rfault, wfault,
                rorder, rmissing>>

\* onChange of the input (disabled while isAsking): setQuery(e.target.value)
SetQuery(b) ==
    /\ ppc = "ready"
    /\ ~isAsking
    /\ query # b
    /\ query' = b
    /\ UNCHANGED <<serverVars, user, credits, ppc, messages, isAsking, ask>>

\* faulty variant of HandleAsk: the first line, which returns when the
\* query is blank or isAsking, is left out
HandleAsk_NoReturn(r) ==
    /\ ppc = "ready"
    /\ rpc[r] = "idle" /\ ask[r] = "none"
    /\ IF credits < Price
       THEN /\ ppc' = "getcredits"
            /\ UNCHANGED <<query, messages, isAsking, ask>>
       ELSE /\ messages' = Append(messages, "user")
            /\ query' = FALSE
            /\ isAsking' = TRUE
            /\ ask' = [ask EXCEPT ![r] = "pending"]
            /\ UNCHANGED ppc
    /\ UNCHANGED <<serverVars, user, credits>>

\* handleAsk up to its fetch: return when the query is blank or isAsking;
\* with credits < 10 alert and go to /get-credits; otherwise append the user
\* message, clear the query, setIsAsking(true) and send the request
HandleAsk(r) ==
    /\ ppc = "ready"
    /\ query /\ ~isAsking
    /\ rpc[r] = "idle" /\ ask[r] = "none"
    /\ IF credits < Price
       THEN /\ ppc' = "getcredits"
            /\ UNCHANGED <<query, messages, isAsking, ask>>
       ELSE /\ messages' = Append(messages, "user")
            /\ query' = FALSE
            /\ isAsking' = TRUE
            /\ ask' = [ask EXCEPT ![r] = "pending"]
            /\ UNCHANGED ppc
    /\ UNCHANGED <<serverVars, user, credits>>

\* the request sent by the page reaches the endpoint: {query, userId: user.id}
ReqArrive(r) ==
    /\ ask[r] \in {"pending", "failed"}
    /\ ReqStart(r, user, TRUE)

\* faulty variant of PageResponse: setIsAsking(false) only on the path that
\* reloads the credits
PageResponse_NoFinally(r) ==
    /\ ask[r] = "pending"
    /\ rpc[r] = "done"
    /\ IF rstatus[r] = 200
       THEN /\ messages' = Append(messages, "assistant")
            /\ ask' = [ask EXCEPT ![r] = "reload"]
            /\ UNCHANGED isAsking
       ELSE /\ messages' = Append(messages, "error")
            /\ ask' = [ask EXCEPT ![r] = "error"]
            /\ UNCHANGED isAsking
    /\ UNCHANGED <<serverVars, user, credits, ppc, query>>

\* the fetch resolves: with data.error (every answer but 200 carries one)
\* throw, append the error message in catch and setIsAsking(false) in
\* finally; otherwise append the assistant message and call loadCredits
PageResponse(r) ==
    /\ ask[r] = "pending"
    /\ rpc[r] = "done"
    /\ IF rstatus[r] = 200
       THEN /\ messages' = Append(messages, "assistant")
            /\ ask' = [ask EXCEPT ![r] = "reload"]
            /\ UNCHANGED isAsking
       ELSE /\ messages' = Append(messages, "error")
            /\ ask' = [ask EXCEPT ![r] = "error"]
            /\ isAsking' = FALSE
    /\ UNCHANGED <<serverVars, user, credits, ppc, query>>

\* loadCredits after a successful query resolves; finally: setIsAsking(false)
PageReload(r) ==
    /\ ask[r] = "reload"
    /\ credits' = loadCredits(Single(user_credits[user]))
    /\ isAsking' = FALSE
    /\ ask' = [ask EXCEPT ![r] = "answered"]
    /\ UNCHANGED <<serverVars, user, ppc, query, messages>>

\* the fetch rejects (network failure): catch appends the error message,
\* finally: setIsAsking(false); the request may still reach the endpoint
PageFetchFails(r) ==
    /\ ask[r] = "pending"
    /\ rpc[r] # "done"
    /\ messages' = Append(messages, "error")
    /\ isAsking' = FALSE
    /\ ask' = [ask EXCEPT ![r] = "failed"]
    /\ UNCHANGED <<serverVars, user, credits, ppc, query>>

NextAsk ==
    \/ \E a \in Accounts \cup {0} : CheckAuth(a)
    \/ PageLoadCredits
    \/ \E b \in BOOLEAN : SetQuery(b)
    \/ \E r \in Reqs : HandleAsk(r)
    \/ \E r \in Reqs : ReqArrive(r)
    \/ \E r \in Reqs : ReqCheck(r)
    \/ \E r \in Reqs : ReqDebit(r)
    \/ \E r \in Reqs, t \in BOOLEAN : ReqContext(r, t)
    \/ \E r \in Reqs, s \in Settled : ReqCombine(r, s)
    \/ \E r \in Reqs : PageResponse(r)
    \/ \E r \in Reqs : PageReload(r)
    \/ \E r \in Reqs : PageFetchFails(r)

\* the browser runs the continuation of a handleAsk call whose await has
\* resolved; nothing obliges the user to act or the endpoint to answer
FairPage == \A r \in Reqs : WF_vars(PageResponse(r)) /\ WF_vars(PageReload(r))

SpecAsk == InitIso /\ [][NextAsk]_vars /\ FairPage

\* ================================================================ claims

\* no handler is between two of its steps
Quiescent ==
    /\ \A r \in Reqs : rpc[r] \in {"idle", "done"}
    /\ \A w \in Hooks : wpc[w] \in {"idle", "done"}

\* the balance of account a as getBalance reports it: 0 without a row
Balance(a) == IF Len(user_credits[a]) = 0 THEN 0 ELSE user_credits[a][1]

\* deliveries that wrote the credits of session e to the ledger
Applied(e) == {w \in Hooks : wapplied[w] /\ wevent[w] = e}

\* no purchase event has been applied twice
NoReplay == \A e \in 1..Len(sessions) : Cardinality(Applied(e)) <= 1

RECURSIVE SumCredits(_)
SumCredits(ws) ==
    IF ws = {} THEN 0
    ELSE LET w == CHOOSE x \in ws : TRUE IN
         ParseInt(sessions[wevent[w]].credits) + SumCredits(ws \ {w})

Credited(a) == SumCredits({w \in Hooks : wapplied[w] /\ sessions[wevent[w]].userId = a})
Debited(a)  == Price * Cardinality({r \in Reqs : rdebited[r] /\ ruser[r] = a})
Refunded(a) == Price * Cardinality({r \in Reqs : rrefunded[r] /\ ruser[r] = a})

\* C1: in every reachable state every stored balance is >= 0.
C1_NonNegative ==
    \A a \in Accounts : \A i \in 1..Len(user_credits[a]) : user_credits[a][i] >= 0

\* C2: conservation: once no handler is in flight, the balance of every
\* account is the sum of the credits the webhook applied, minus 10 for every
\* debit applied, plus 10 for every refund applied (stated for runs in which
\* no purchase event was applied twice).
C2_Conservation ==
    (Quiescent /\ NoReplay) =>
        \A a \in Accounts : Balance(a) = Credited(a) - Debited(a) + Refunded(a)

\* C3: every purchase event is applied to the ledger at most once, however
\* often its webhook is delivered.
C3_IdempotentCredit == NoReplay

\* C4: two requests issued against a balance of 10, with nothing else writing
\* to the account and no refund: exactly one is debited, the other is
\* answered 402, and the balance ends at 0.
C4_Pair(r1, r2) ==
    /\ r1 # r2
    /\ rpc[r1] = "done" /\ rpc[r2] = "done"
    /\ rstatus[r1] # 400 /\ rstatus[r2] # 400
    /\ ruser[r1] = ruser[r2]
    /\ startBal[r1] = <<Price>> /\ startBal[r2] = <<Price>>
    /\ ~hookTouched[r1] /\ ~hookTouched[r2]
    /\ ~rrefunded[r1] /\ ~rrefunded[r2]
    /\ \A r3 \in Reqs \ {r1, r2} : ~(ruser[r3] = ruser[r1] /\ rdebited[r3])

C4_DebitAtomicity ==
    \A r1, r2 \in Reqs :
        C4_Pair(r1, r2) =>
            /\ rdebited[r1] # rdebited[r2]
            /\ rstatus[r1] = 402 \/ rstatus[r2] = 402
            /\ Balance(ruser[r1]) = 0

\* C5: a request that has debited the account and has returned ended in
\* exactly one of: a successful result (200), or a refund.
C5_DebitSettled ==
    \A r \in Reqs :
        (rpc[r] = "done" /\ rdebited[r]) => ((rstatus[r] = 200) # rrefunded[r])

\* C6: a request that debited, saw all three provider calls fail and has
\* returned, with no other handler writing to the account since it started,
\* leaves the stored balance equal to the balance before its debit.
C6_Case(r) ==
    /\ rpc[r] = "done"
    /\ rdebited[r]
    /\ \A p \in PIdx : response[r][p] = "rejected"
    /\ ~reqTouched[r] /\ ~hookTouched[r]

C6_RefundCorrectness ==
    \A r \in Reqs : C6_Case(r) => Single(user_credits[ruser[r]]) = startBal[r]

C6_Witness == \E r \in Reqs : C6_Case(r)

\* C7: the refund step adds 10 to the balance stored when it runs (stated
\* for runs in which no purchase event was applied twice).
C7_RefundInverse ==
    [][\A r \in Reqs :
         (NoReplay /\ rpc[r] = "fanout" /\ rrefunded'[r]) =>
             \A i \in 1..Len(user_credits[ruser[r]]) :
                 user_credits'[ruser[r]][i] = user_credits[ruser[r]][i] + Price]_vars

\* ---- the handlers run one after another (the reference for C8)

\* the webhook handler run alone on the data bal
SerialHook(w, bal) ==
    LET c == ParseInt(sessions[wevent[w]].credits) IN
    IF bal = <<>> THEN {<<c>>} ELSE {<<bal[1] + c>>}

\* the pro-chat handler run alone on the data bal, its providers answering
\* as they did in the run; a request the run rejected never reached its
\* providers, so either answer is allowed for it
SerialReq(r, bal) ==
    IF bal = <<>> \/ bal[1] < Price THEN {bal}
    ELSE IF rrefunded[r] THEN {bal}
    ELSE IF rdebited[r] THEN {<<bal[1] - Price>>}
    ELSE {bal, <<bal[1] - Price>>}

SerialStep(h, bal) ==
    IF h[1] = "req" THEN SerialReq(h[2], bal) ELSE SerialHook(h[2], bal)

RECURSIVE SerialFinals(_, _)
\* the data left by every order of running the handlers hs one after another
SerialFinals(hs, bal) ==
    IF hs = {} THEN {bal}
    ELSE UNION {UNION {SerialFinals(hs \ {h}, b) : b \in SerialStep(h, bal)} : h \in hs}

\* the handlers that ran on account a: requests past the body check, and
\* deliveries of verified checkout.session.completed events
Handlers(a) ==
    {<<"req", r>> : r \in {x \in Reqs : rpc[x] = "done" /\ ruser[x] = a}}
    \cup {<<"hook", w>> : w \in {x \in Hooks : wapplied[x] /\ sessions[wevent[x]].userId = a}}

\* C8: serializability: once no handler is in flight, the stored balance of
\* every account is the balance some one-after-another order of the handlers
\* that ran on it leaves.
C8_Serializable ==
    Quiescent =>
        \A a \in Accounts : Single(user_credits[a]) \in SerialFinals(Handlers(a), <<>>)

\* C9: gate consistency: at the debit step of a request the balance its check
\* read is still the stored balance, and the debit stores that balance minus
\* 10 (stated for runs in which no purchase event was applied twice).
C9_GateConsistency ==
    [][\A r \in Reqs :
         (NoReplay /\ rpc[r] = "debit" /\ rpc'[r] = "context") =>
             /\ Single(user_credits[ruser[r]]) = userCredits[r]
             /\ Single(user_credits'[ruser[r]]) = <<userCredits[r][1] - Price>>]_vars

\* C10: a request whose balance read found no row, or a balance below 10, is
\* answered 402 and no provider call is issued for it.
C10_Case(r) ==
    /\ rpc[r] \notin {"idle", "check"}
    /\ rstatus[r] # 400
    /\ \/ userCredits[r] = <<>>
       \/ userCredits[r][1] < Price

C10_InsufficientRejected ==
    \A r \in Reqs :
        C10_Case(r) => /\ rpc[r] = "done"
                       /\ rstatus[r] = 402
                       /\ response[r] = NoResponse
                       /\ ~rdebited[r]

\* both cases of C10: one request rejected with a row below 10, another
\* rejected without a row
C10_Witness ==
    \E r1, r2 \in Reqs :
        /\ C10_Case(r1) /\ userCredits[r1] # <<>>
        /\ C10_Case(r2) /\ userCredits[r2] = <<>>

\* C11: the step that rejects a request for insufficient credits leaves the
\* ledger as it was, and a rejected request stays rejected: it never debits
\* and never refunds.
C11_RejectedNoWrite ==
    [][\A r \in Reqs :
         /\ (rpc[r] = "check" /\ rstatus'[r] = 402) => user_credits' = user_credits
         /\ rstatus[r] = 402 =>
               /\ rpc[r] = "done" /\ rpc'[r] = "done" /\ rstatus'[r] = 402
               /\ ~rdebited'[r] /\ ~rrefunded'[r]]_vars

\* a request rejected although its account has a row
C11_Witness == \E r \in Reqs : rstatus[r] = 402 /\ userCredits[r] # <<>>

\* C12: a delivery whose signature verification fails is answered 400 in the
\* step that receives it, that step leaves every balance as it was, and the
\* delivery takes no further step: no select, no update, no insert.
C12_InvalidSignatureRejected ==
    [][\A w \in Hooks :
         /\ (wpc[w] = "idle" /\ wsig'[w] = "invalid") =>
               /\ user_credits' = user_credits
               /\ wpc'[w] = "done" /\ wstatus'[w] = 400
         /\ wsig[w] = "invalid" =>
               /\ wpc'[w] = "done" /\ wstatus'[w] = 400
               /\ ~wapplied'[w] /\ existing'[w] = <<>>]_vars

C12_Witness == \E w \in Hooks : wsig[w] = "invalid" /\ wpc[w] = "done"

\* C13: the step that applies a verified checkout.session.completed event
\* for account A with N credits creates A's row with balance N when A has no
\* row, and otherwise sets A's balance to the balance stored just before
\* plus N (a row created between the delivery's select and its insert is
\* left out: what the insert does then is up to the table's constraints).
C13_CreditApplied ==
    [][\A w \in Hooks :
         (wpc[w] = "write" /\ wpc'[w] = "done") =>
             LET s  == sessions[wevent[w]]
                 n  == ParseInt(s.credits)
                 rs == user_credits[s.userId]
             IN  IF rs = <<>>
                 THEN user_credits'[s.userId] = <<n>>
                 ELSE existing[w] # <<>> => user_credits'[s.userId] = <<rs[1] + n>>]_vars

\* C14: a delivery whose update or insert failed in the store is not
\* acknowledged with a success status.
C14_FailureNotAcknowledged ==
    \A w \in Hooks : wfault[w] => wstatus[w] # 200

\* C15: a request whose balance select or debit update failed in the store
\* issues no provider call and does not answer 200.
C15_LedgerErrorSurfaced ==
    \A r \in Reqs : rfault[r] # "none" => (response[r] = NoResponse /\ rstatus[r] # 200)

\* C16: every request that was received eventually has its answer.
C16_RequestTerminates ==
    \A r \in Reqs : (rpc[r] # "idle") ~> (rpc[r] = "done")

C18_NoRowShowsZero ==
    [][(ppc = "load" /\ user_credits[user] = <<>>) =>
           (credits' = 0 /\ ppc' \in {"load", "ready"})]_vars

\* the page is ready for a user without a row
C18_Witness == ppc = "ready" /\ user # 0 /\ user_credits[user] = <<>> /\ credits = 0

\* requests on account a that were answered 200
Answered(a) == {r \in Reqs : rpc[r] = "done" /\ ruser[r] = a /\ rstatus[r] = 200}

\* every request on account a that has started was answered 200, 402 or 400
\* (none failed after its debit, none refunded)
OnlyAnsweredOrRejected(a) ==
    \A r \in Reqs : (rpc[r] = "done" /\ ruser[r] = a) => rstatus[r] \in {200, 400, 402}

\* C19: every request answered 200 costs the account exactly 10, once: when
\* no handler is in flight, no purchase was applied twice and no request of
\* the account failed or was refunded, the balance is the credits applied
\* minus 10 for every request answered 200.
C19_FixedPrice ==
    (Quiescent /\ NoReplay) =>
        \A a \in Accounts :
            OnlyAnsweredOrRejected(a) =>
                Balance(a) = Credited(a) - Price * Cardinality(Answered(a))

\* C20: a request that has returned was answered 200 exactly when it was
\* debited and at least one provider call was fulfilled; with all three
\* rejected it was answered with an error and no combined result.
C20_SuccessIff ==
    \A r \in Reqs :
        rpc[r] = "done" =>
            /\ rstatus[r] = 200 <=>
                   (rdebited[r] /\ \E p \in PIdx : response[r][p] = "fulfilled")
            /\ (\A p \in PIdx : response[r][p] = "rejected") =>
                   (rstatus[r] = 500 /\ models[r] = <<>>)

\* C21: within one request, the provider calls are issued only after the
\* debit write, and the refund is written only after all three provider
\* calls have settled as rejected.
C21_Ordering ==
    [][\A r \in Reqs :
        /\ (response[r] = NoResponse /\ response'[r] # NoResponse) => rdebited[r]
        /\ (~rrefunded[r] /\ rrefunded'[r]) =>
               /\ rdebited[r]
               /\ \A p \in PIdx : response[r][p] = "rejected"]_vars

\* a request has refunded after its three calls were rejected
C21_Witness ==
    \E r \in Reqs : rrefunded[r] /\ rdebited[r] /\ \A p \in PIdx : response[r][p] = "rejected"

\* the handlers that act for account b and took a step
ActedFor(b) ==
    \/ \E r \in Reqs : rpc[r] # "idle" /\ ruser[r] = b /\ rpc'[r] # rpc[r]
    \/ \E w \in Hooks : /\ wpc[w] \in {"select", "write"} /\ wpc'[w] # wpc[w]
                        /\ sessions[wevent[w]].userId = b

\* C22: a step changes the rows of account b only when it is a step of a
\* request or of a webhook delivery for account b.
C22_Isolation ==
    [][\A b \in Accounts : user_credits'[b] # user_credits[b] => ActedFor(b)]_vars

\* a request has debited and a delivery has credited while another account
\* holds a row
C22_Witness ==
    \E r \in Reqs, w \in Hooks, b \in Accounts :
        /\ rdebited[r] /\ ruser[r] # b
        /\ wapplied[w] /\ sessions[wevent[w]].userId # b
        /\ Len(user_credits[b]) = 1

\* position of section x in the fixed order of Sections
SectionIdx(x) == CHOOSE p \in PIdx : Sections[p] = x

\* C23: the sections of a request answered 200 are exactly those of the
\* fulfilled provider calls, each once, in the order OpenAI, Claude, Gemini,
\* whatever the order in which the calls settled.
C23_SectionsInOrder ==
    \A r \in Reqs :
        (rpc[r] = "done" /\ rstatus[r] = 200) =>
            /\ \A p \in PIdx : response[r][p] = "fulfilled" <=>
                   \E i \in 1..Len(models[r]) : models[r][i] = Sections[p]
            /\ Len(models[r]) = Cardinality({p \in PIdx : response[r][p] = "fulfilled"})
            /\ \A i, j \in 1..Len(models[r]) :
                   i < j => SectionIdx(models[r][i]) < SectionIdx(models[r][j])

\* a request answered 200 whose calls settled Gemini first, OpenAI last, the
\* Claude call rejected
C23_Witness ==
    \E r \in Reqs :
        /\ rpc[r] = "done" /\ rstatus[r] = 200
        /\ rorder[r] = <<3, 2, 1>>
        /\ response[r] = <<"fulfilled", "rejected", "fulfilled">>

\* C24: every session carries the credits of an offered package and the
\* charge of that package, and so does every grant the webhook writes.
C24_PackagesOnly ==
    \A e \in 1..Len(sessions) :
        \E p \in Packages :
            /\ ParseInt(sessions[e].credits) = p.credits
            /\ sessions[e].unit_amount = UnitAmount(p.price)

\* C25: a request whose body lacks the query or the userId is answered 400
\* in its first step, having read nothing, written nothing and called no
\* provider; every balance is as it was.
C25_BadRequest ==
    [][\A r \in Reqs :
        /\ (rpc[r] = "idle" /\ rmissing'[r]) =>
               /\ rpc'[r] = "done" /\ rstatus'[r] = 400
               /\ user_credits' = user_credits
        /\ rmissing[r] =>
               /\ rpc[r] = "done" /\ rstatus[r] = 400
               /\ userCredits[r] = <<>> /\ response[r] = NoResponse
               /\ ~rdebited[r] /\ ~rrefunded[r]]_vars

\* a request without a query was answered while its account held credits
C25_Witness ==
    \E r \in Reqs, a \in Accounts :
        rmissing[r] /\ rstatus[r] = 400 /\ Len(user_credits[a]) = 1

\* C26: a verified event of a type other than checkout.session.completed is
\* acknowledged with 200 {received: true} in its first step and never reads
\* or writes the ledger.
C26_OtherEventIgnored ==
    [][\A w \in Hooks :
        /\ (wpc[w] = "idle" /\ wtype'[w] = "other") =>
               /\ wpc'[w] = "done" /\ wstatus'[w] = 200
               /\ user_credits' = user_credits
        /\ wtype[w] = "other" =>
               /\ wsig[w] = "valid" /\ wpc'[w] = "done" /\ wstatus'[w] = 200
               /\ ~wapplied'[w] /\ existing'[w] = <<>>]_vars

\* an event of another type was acknowledged while a row existed
C26_Witness ==
    \E w \in Hooks, a \in Accounts :
        wtype[w] = "other" /\ wstatus[w] = 200 /\ Len(user_credits[a]) = 1

\* the requests sent by the page whose fetch has not settled
InFlight == {r \in Reqs : ask[r] = "pending"}

\* C27: the page sends a request only when isAsking is false, the query is
\* not blank, the credits displayed are at least 10 and no request of the
\* page is in flight; so at most one is in flight.
C27_OneInFlight ==
    [][/\ \A r \in Reqs :
            (ask[r] = "none" /\ ask'[r] = "pending") =>
                /\ ~isAsking /\ query /\ credits >= Price
                /\ InFlight = {}
       /\ Cardinality(InFlight') <= 1]_vars

\* the page has sent a second request after its first one failed on the network
C27_Witness ==
    \E r1, r2 \in Reqs : ask[r1] = "failed" /\ ask[r2] = "pending" /\ isAsking

\* the handleAsk calls whose request has settled and been handled
Handled == {r \in Reqs : ask[r] \in {"answered", "error", "failed"}}

\* the assistant messages shown: answers and error messages
RECURSIVE Assistant(_)
Assistant(ms) ==
    IF ms = <<>> THEN 0
    ELSE (IF Head(ms) \in {"assistant", "error"} THEN 1 ELSE 0) + Assistant(Tail(ms))

\* C28: once the request of a handleAsk call has settled, the call ends with
\* isAsking false; every call that has ended appended exactly one assistant
\* message (the answer or an error message), and isAsking is true exactly
\* while a call has not ended.
C28_AskSettles ==
    /\ [](/\ Assistant(messages) =
                Cardinality(Handled) + Cardinality({r \in Reqs : ask[r] = "reload"})
          /\ isAsking <=> \E r \in Reqs : ask[r] \in {"pending", "reload"})
    /\ \A r \in Reqs :
          (ask[r] = "pending" /\ rpc[r] = "done") ~> (r \in Handled /\ ~isAsking)

\* one call ended with an answer's error, another with a network failure
C28_Witness ==
    \E r1, r2 \in Reqs :
        ask[r1] = "failed" /\ ask[r2] \in {"error", "answered"} /\ ~isAsking

\* the page is idle after a query has completed, every request for the
\* user's account was sent by this page, and none of them is still running
IdleAfterQuery ==
    /\ ppc = "ready" /\ ~isAsking
    /\ Handled # {}
    /\ \A r \in Reqs : rpc[r] # "idle" => (ruser[r] = user => ask[r] # "none")
    /\ \A r \in Reqs : ask[r] # "none" => (rpc[r] = "done" /\ r \in Handled)

\* C29: whenever the page is idle after a query has completed and nothing
\* but its own queries has touched the account, the credits it displays are
\* the stored balance.
C29_DisplayedIsStored == IdleAfterQuery => credits = Balance(user)

====
